---- MODULE Spec2Model ----
(***************************************************************************)
(* Wireworld on the GPU: the palette (image <-> cell bytes), the two       *)
(* framebuffer-backed simulation states, the rule kernel (fragment shader) *)
(* and the ping-pong Step driver.                                          *)
(***************************************************************************)
EXTENDS Integers, Naturals, Sequences, FiniteSets, TLC

VARIABLES
    pal,        \* Config.Palette: the four configured colours
    img,        \* the decoded input image (image.Image): bounds and pixels
    pix,        \* last result of Palette.toInternalFormat: the 8bpp buffer
    pixSize,    \* ... and the size returned with it
    sim,        \* Simulation: the input and output SimulationState structs
    gl,         \* OpenGL objects: textures, framebuffers, texture binding
    call,       \* the last operation performed and its argument
    gen,        \* rule applications performed since the grid was loaded
    loaded,     \* the cell bytes SetData wrote when the simulation was loaded
    before,     \* front grid at the start of the last Simulation.Step call
    heads,      \* countHeadNeighbours() of every fragment of the last pass
    single,     \* the same simulation driven by Step(1) calls only
    readback,   \* what SimulationState.Data returned, if the last call read it
    exported,   \* the image the last call produced, if it produced one
    err,        \* whether the last call returned an error
    pass,       \* the render pass in progress: the fragments not yet shaded
    app,        \* Application: running, stepTime, stepInterval, stepMultiplier,
                \* clockCycles
    now,        \* the last value time.Now() returned
    keys,       \* the W and S presses so far, as far as they form a run of
                \* W presses followed by S presses
    held,       \* for each SimulationState driven on its own, whether it was
                \* never initialized, holds storage, or was released
    disk,       \* Config.Input and the files of the directory it lies in
    saved       \* the front grid when saveState last wrote a state file

vars == <<pal, img, pix, pixSize, sim, gl, call, gen, loaded, before, heads,
          single, readback, exported, err, pass, app, now, keys, held, disk,
          saved>>

\* The variables the operations on a loaded simulation leave alone.
otherVars == <<err, pass, app, now, keys, held>>

-----------------------------------------------------------------------------
(* Bounds of the model.                                                    *)

MaxW == 3           \* widest grid of a simulation
MaxH == 3           \* tallest grid of a simulation
MaxCells == 9       \* most cells of a simulation's grid
MaxMarked == 2      \* most non-background pixels in a simulation's image
MaxGen == 2         \* most rule applications after a load
MaxN == 2           \* largest n of Simulation.Step(n)
MaxImgW == 2        \* widest image handed to the palette alone
MaxImgH == 2        \* tallest image handed to the palette alone
MaxImgCells == 4    \* most pixels of such an image
MaxOdd == 2         \* most non-background pixels in such an image
MaxOrigin == 1      \* largest Min.X / Min.Y of an image's bounds
MaxNames == 6       \* OpenGL object names available per object type
MaxPassCells == 6   \* most cells of a grid whose pass is shaded cell by cell
MaxGridW == 2       \* widest size handed to a SimulationState on its own
MaxGridH == 2       \* tallest such size
MaxBuf == 4         \* longest buffer handed to SetData
MaxCalls == 4       \* most calls made on the two states driven on their own
MaxKeys == 21       \* most W and S presses
MaxTickCells == 2   \* most cells of a grid driven by the clock
MaxTickSteps == 10  \* largest multiplier whose Step call is carried out
MaxNow == 20000000  \* latest instant of a tick, in nanoseconds

-----------------------------------------------------------------------------
(* Cell states.                                                            *)

CellEmpty == 0
CellWire == 50
CellTail == 100
CellHead == 255

None == [none |-> TRUE]

-----------------------------------------------------------------------------
(* Colours (image/color).  A colour value carries its Go type: color.RGBA  *)
(* is alpha-premultiplied, color.NRGBA is not.                             *)

RGBA(r, g, b, a) == [kind |-> "RGBA", R |-> r, G |-> g, B |-> b, A |-> a]
NRGBA(r, g, b, a) == [kind |-> "NRGBA", R |-> r, G |-> g, B |-> b, A |-> a]

\* Color.RGBA(): the alpha-premultiplied 16-bit components <<r, g, b, a>>.
\* color.RGBA widens each byte (c | c<<8 = c*257); color.NRGBA widens and
\* multiplies by alpha: (c*257)*(a*257)/0xffff, which equals c*a*257/255.
ColorRGBA16(c) ==
    IF c.kind = "RGBA"
    THEN <<c.R * 257, c.G * 257, c.B * 257, c.A * 257>>
    ELSE <<(c.R * c.A * 257) \div 255, (c.G * c.A * 257) \div 255,
           (c.B * c.A * 257) \div 255, c.A * 257>>

\* Faulty variant: the blue component is not compared.
colorEquals_noBlue(a, b) ==
    /\ ColorRGBA16(a)[1] = ColorRGBA16(b)[1]
    /\ ColorRGBA16(a)[2] = ColorRGBA16(b)[2]

colorEquals(a, b) ==
    /\ ColorRGBA16(a)[1] = ColorRGBA16(b)[1]
    /\ ColorRGBA16(a)[2] = ColorRGBA16(b)[2]
    /\ ColorRGBA16(a)[3] = ColorRGBA16(b)[3]

\* Palette.LoadDefault
LoadDefault ==
    [Empty |-> RGBA(0, 0, 0, 255),
     Wire  |-> RGBA(1, 91, 150, 255),
     Head  |-> RGBA(255, 255, 255, 255),
     Tail  |-> RGBA(153, 255, 0, 255)]

\* Palettes the -pal-??? flags can configure (parseHex fixes alpha at 255):
\* the default, one with black as the Wire colour, and two in which two
\* states share a colour.
Palettes ==
    { LoadDefault,
      [Empty |-> RGBA(255, 255, 255, 255), Wire |-> RGBA(0, 0, 0, 255),
       Head  |-> RGBA(1, 91, 150, 255),    Tail |-> RGBA(153, 255, 0, 255)],
      [Empty |-> RGBA(0, 0, 0, 255),       Wire |-> RGBA(1, 91, 150, 255),
       Head  |-> RGBA(1, 91, 150, 255),    Tail |-> RGBA(153, 255, 0, 255)],
      [Empty |-> RGBA(1, 91, 150, 255),    Wire |-> RGBA(1, 91, 150, 255),
       Head  |-> RGBA(255, 255, 255, 255), Tail |-> RGBA(153, 255, 0, 255)] }

\* Palette.toCellState: the value A of the color.Alpha it returns.
toCellState(p, c) ==
    IF colorEquals(p.Wire, c) THEN CellWire
    ELSE IF colorEquals(p.Head, c) THEN CellHead
    ELSE IF colorEquals(p.Tail, c) THEN CellTail
    ELSE CellEmpty

-----------------------------------------------------------------------------
(* Images.  An image is its bounds (min, w = Dx, h = Dy) and its pixels,   *)
(* row by row; sequences are 1-based, so pixel (x, y) of the bounds is     *)
(* element (y-min.y)*w + (x-min.x) + 1.                                    *)

InRect(im, x, y) ==
    /\ im.min[1] <= x /\ x < im.min[1] + im.w
    /\ im.min[2] <= y /\ y < im.min[2] + im.h

\* image.(*Alpha).PixOffset / image.(*RGBA).PixOffset, in elements.
PixOffset(im, x, y) == (y - im.min[2]) * im.w + (x - im.min[1])

\* Image.At: the zero colour outside the bounds.
At(im, x, y) ==
    IF InRect(im, x, y) THEN im.pix[PixOffset(im, x, y) + 1]
    ELSE RGBA(0, 0, 0, 0)

\* image.(*Alpha).Set: points outside the rectangle are ignored.
AlphaSet(out, im, x, y, v) ==
    IF InRect(im, x, y)
    THEN [out EXCEPT ![PixOffset(im, x, y) + 1] = v]
    ELSE out

\* The loops of toInternalFormat, both bounds inclusive as in the source:
\* y and x run from b.Min to b.Max.
RECURSIVE toInternalLoop(_, _, _, _, _)
toInternalLoop(p, im, out, x, y) ==
    IF y > im.min[2] + im.h THEN out
    ELSE IF x > im.min[1] + im.w THEN toInternalLoop(p, im, out, im.min[1], y + 1)
    ELSE toInternalLoop(p, im,
                        AlphaSet(out, im, x, y, toCellState(p, At(im, x, y))),
                        x + 1, y)

\* Faulty variant: the size is returned as (b.Dy(), b.Dx()).
toInternalFormat_swappedSize(p, im) ==
    [pix  |-> toInternalLoop(p, im, [i \in 1..(im.w * im.h) |-> 0],
                             im.min[1], im.min[2]),
     size |-> <<im.h, im.w>>]

\* Palette.toInternalFormat: out.Pix of a zeroed image.NewAlpha(b), and the
\* size (b.Dx(), b.Dy()).
toInternalFormat(p, im) ==
    [pix  |-> toInternalLoop(p, im, [i \in 1..(im.w * im.h) |-> 0],
                             im.min[1], im.min[2]),
     size |-> <<im.w, im.h>>]

\* Faulty variant: Tail bytes are painted with the Head colour.
fromInternalColor_tailAsHead(p, b) ==
    IF b = CellWire THEN p.Wire
    ELSE IF b = CellHead THEN p.Head
    ELSE IF b = CellTail THEN p.Head
    ELSE p.Empty

\* The switch of fromInternalFormat.
fromInternalColor(p, b) ==
    IF b = CellWire THEN p.Wire
    ELSE IF b = CellHead THEN p.Head
    ELSE IF b = CellTail THEN p.Tail
    ELSE p.Empty

\* image.(*RGBA).Set stores the colour converted by color.RGBAModel.
RGBAModel(c) ==
    RGBA(ColorRGBA16(c)[1] \div 256, ColorRGBA16(c)[2] \div 256,
         ColorRGBA16(c)[3] \div 256, ColorRGBA16(c)[4] \div 256)

\* Palette.fromInternalFormat: an image.NewRGBA(image.Rect(0, 0, w, h)).
fromInternalFormat(p, bytes, size) ==
    [min |-> <<0, 0>>, w |-> size[1], h |-> size[2],
     pix |-> [i \in 1..(size[1] * size[2]) |->
                 RGBAModel(fromInternalColor(p, bytes[i]))]]

-----------------------------------------------------------------------------
(* OpenGL objects.  Names are small positive integers, 0 names no object.  *)
(* A texture is its level-0 image: w, h and the red bytes row by row; a    *)
(* framebuffer is the name of the texture attached as COLOR_ATTACHMENT0.   *)

Names == 1..MaxNames

\* Contents of texture storage specified with a nil pointer are undefined:
\* the model fills it with one of these bytes.
UninitBytes == {0, 7}

\* No objects yet.  obj is the name space shader and program objects share,
\* vao and buf are the vertex array and buffer objects; boundFbo is the
\* FRAMEBUFFER binding, boundTex the TEXTURE_2D binding of unit 0.
NoGL == [tex |-> [n \in Names |-> None], fbo |-> [n \in Names |-> None],
         rbo |-> [n \in Names |-> None], obj |-> [n \in Names |-> None],
         vao |-> [n \in Names |-> None], buf |-> [n \in Names |-> None],
         boundTex |-> 0, boundFbo |-> 0]

\* glGenTextures / glGenFramebuffers / glGenRenderbuffers: an unused name.
GenName(table) == CHOOSE n \in Names : table[n] = None /\
                      \A m \in Names : table[m] = None => n <= m

\* glDelete*: unused names and 0 are silently ignored.
DeleteName(table, n) == [m \in Names |-> IF m = n THEN None ELSE table[m]]

\* The zero value of a SimulationState struct.
ZeroState == [size |-> <<0, 0>>, fbo |-> 0, rbo |-> 0, tex |-> 0]

\* SimulationState.Release
Release(ss, g) ==
    [g EXCEPT !.tex = DeleteName(g.tex, ss.tex),
              !.rbo = DeleteName(g.rbo, ss.rbo),
              !.fbo = DeleteName(g.fbo, ss.fbo)]

\* SimulationState.Init: the struct, the GL objects and the error.
\* fill is the byte the undefined texture storage happens to hold, complete
\* whether glCheckFramebufferStatus reports FRAMEBUFFER_COMPLETE.
SimulationStateInit(ss, size, g, fill, complete) ==
    IF size[1] < 1 \/ size[2] < 1
    THEN [ss |-> [ss EXCEPT !.size = size], gl |-> g, err |-> TRUE]
    ELSE LET g0 == Release(ss, g)
             f  == GenName(g0.fbo)
             t  == GenName(g0.tex)
             r  == GenName(g0.rbo)
         IN [ss |-> [size |-> size, fbo |-> f, rbo |-> r, tex |-> t],
             gl |-> [g0 EXCEPT
                       !.tex[t] = [w |-> size[1], h |-> size[2],
                                   data |-> [i \in 1..(size[1] * size[2]) |-> fill]],
                       !.fbo[f] = [color |-> t],
                       !.rbo[r] = [w |-> size[1], h |-> size[2]]],
             err |-> ~complete]

\* SimulationState.SetData: glTexImage2D with UNPACK_ALIGNMENT 1 reads
\* size[1] * size[2] bytes from the start of pix, rows back to back,
\* whatever the length of pix; beyond is what the memory after the end of
\* a shorter pix holds.
SetData(ss, bytes, size, g, beyond) ==
    [ss |-> [ss EXCEPT !.size = size],
     gl |-> [g EXCEPT !.tex[ss.tex] =
                [w |-> size[1], h |-> size[2],
                 data |-> [i \in 1..(size[1] * size[2]) |->
                             IF i <= Len(bytes) THEN bytes[i] ELSE beyond]]]]

\* Row stride of glReadPixels for one-byte pixels under PACK_ALIGNMENT a.
PackStride(w, a) == ((w + a - 1) \div a) * a

\* GL_PACK_ALIGNMENT is never set, so it has its initial value.
PackAlignment == 4

\* SimulationState.Data: a zeroed buffer of w*h bytes into which
\* glReadPixels writes row y of the framebuffer's colour attachment at
\* offset y*stride; bytes between rows are not written, and rows that fall
\* beyond the end of the buffer are not part of the result.
Data(ss, g) ==
    LET w == ss.size[1]
        h == ss.size[2]
        t == g.tex[g.fbo[ss.fbo].color]
        k == PackStride(w, PackAlignment)
    IN [i \in 1..(w * h) |->
          LET x == (i - 1) % k
              y == (i - 1) \div k
          IN IF x < w /\ y < h /\ x < t.w /\ y < t.h
             THEN t.data[y * t.w + x + 1] ELSE 0]

-----------------------------------------------------------------------------
(* The rule kernel (SimulationShader.Fragment).  A sampled red component   *)
(* is the float c/255 of the stored byte c; the model keeps the numerator. *)
(* One fragment is generated per texel of the render target; with the      *)
(* viewport equal to the texture size, fragUV of fragment (x, y) is the    *)
(* centre of texel (x, y) of the input texture.                            *)

\* Faulty variant: coordinates outside the texture clamp to the edge.
WrapCoord_clamp(i, n) == IF i < 0 THEN 0 ELSE IF i >= n THEN n - 1 ELSE i

\* The texture's wrap mode is never set, so it is the initial GL_REPEAT.
WrapCoord(i, n) == i % n

\* texture2D / textureOffset with NEAREST filtering: the red numerator of
\* the texel at the wrapped coordinate.
Texel(t, x, y) == t.data[WrapCoord(y, t.h) * t.w + WrapCoord(x, t.w) + 1]

\* uint(r): truncation of the float c/255.
UintOfRed(c) == c \div 255

\* uint(r * 255): truncation of (c/255)*255.
UintOfRed255(c) == (c * 255) \div 255

\* countHeadNeighbours: r00 + r01 + r02 + r10 + r12 + r20 + r21 + r22.
countHeadNeighbours(t, x, y) ==
    UintOfRed(Texel(t, x - 1, y + 1)) + UintOfRed(Texel(t, x, y + 1)) +
    UintOfRed(Texel(t, x + 1, y + 1)) +
    UintOfRed(Texel(t, x - 1, y)) + UintOfRed(Texel(t, x + 1, y)) +
    UintOfRed(Texel(t, x - 1, y - 1)) + UintOfRed(Texel(t, x, y - 1)) +
    UintOfRed(Texel(t, x + 1, y - 1))

\* Faulty variant: a wire turns into a head for any non-zero head count.
NextCell_anyHead(cell, h) ==
    IF cell = CellWire THEN (IF h >= 1 THEN CellHead ELSE cell)
    ELSE IF cell = CellHead THEN CellTail
    ELSE IF cell = CellTail THEN CellWire
    ELSE cell

\* Faulty variant: a tail is written back one short of the wire value.
NextCell_offByOne(cell, h) ==
    IF cell = CellWire THEN (IF h = 1 \/ h = 2 THEN CellHead ELSE cell)
    ELSE IF cell = CellHead THEN CellTail
    ELSE IF cell = CellTail THEN CellWire - 1
    ELSE cell

\* Faulty variant: a tail is cleared instead of turning into a wire.
NextCell_tailCleared(cell, h) ==
    IF cell = CellWire THEN (IF h = 1 \/ h = 2 THEN CellHead ELSE cell)
    ELSE IF cell = CellHead THEN CellTail
    ELSE IF cell = CellTail THEN CellEmpty
    ELSE cell

\* Faulty variant: the break of case CellHead is missing, so a head falls
\* through the tail case.
NextCell_fallThrough(cell, h) ==
    IF cell = CellWire THEN (IF h = 1 \/ h = 2 THEN CellHead ELSE cell)
    ELSE IF cell = CellHead THEN CellWire
    ELSE IF cell = CellTail THEN CellWire
    ELSE cell

\* The switch of main(): the new value of cell given the head count.
NextCell(cell, h) ==
    IF cell = CellWire THEN (IF h = 1 \/ h = 2 THEN CellHead ELSE cell)
    ELSE IF cell = CellHead THEN CellTail
    ELSE IF cell = CellTail THEN CellWire
    ELSE cell

\* output = vec4(float(cell) / 255, ...) stored in a normalized 8-bit
\* channel: clamp to [0, 1], scale by 255 and round to nearest.
StoreRed(cell) ==
    LET c == IF cell > 255 THEN 255 ELSE cell
    IN (2 * c * 255 + 255) \div (2 * 255)

\* main() for the fragment at (x, y).
ShaderMain(t, x, y) ==
    StoreRed(NextCell(UintOfRed255(Texel(t, x, y)), countHeadNeighbours(t, x, y)))

\* gl.DrawArrays over the full-screen quad: every texel of the render
\* target inside the viewport is written by main(); input and target are
\* distinct textures.
DrawArrays(tin, tout, viewport) ==
    [tout EXCEPT !.data =
        [i \in 1..(tout.w * tout.h) |->
            LET x == (i - 1) % tout.w
                y == (i - 1) \div tout.w
            IN IF x < viewport[1] /\ y < viewport[2]
               THEN ShaderMain(tin, x, y) ELSE tout.data[i]]]

\* The head counts main() computed in that draw, fragment by fragment.
DrawHeads(tin, viewport) ==
    [i \in 1..(viewport[1] * viewport[2]) |->
        countHeadNeighbours(tin, (i - 1) % viewport[1], (i - 1) \div viewport[1])]

-----------------------------------------------------------------------------
(* Shader programs.  A shader object is [kind, pending], a program object  *)
(* [kind, shaders]: the shader objects attached to it.                     *)

\* glCreateShader / glCreateProgram: the object under an unused name.
CreateObject(g, rec) ==
    LET n == GenName(g.obj)
    IN [gl |-> [g EXCEPT !.obj[n] = rec], name |-> n]

\* glDeleteShader(n): an error that deletes nothing when n names no object
\* (INVALID_VALUE) or names a program object (INVALID_OPERATION); a shader
\* attached to a program is only flagged for deletion.
DeleteShader(g, n) ==
    IF n \notin Names THEN g
    ELSE IF g.obj[n] = None THEN g
    ELSE IF g.obj[n].kind # "shader" THEN g
    ELSE IF \E q \in Names : /\ g.obj[q] # None
                             /\ g.obj[q].kind = "program"
                             /\ n \in g.obj[q].shaders
    THEN [g EXCEPT !.obj[n].pending = TRUE]
    ELSE [g EXCEPT !.obj[n] = None]

\* The ways the driver can fail a compile: the vertex or the fragment
\* shader does not compile, or the program does not link.
CompileOutcomes == {"ok", "vertex", "fragment", "link"}

\* compile(vertex, "", fragment): the program name (0 with an error), the
\* GL objects and the error.  The deferred glDeleteShader calls run on every
\* return after the shader they name was compiled, last deferred first.
compile(g, outcome) ==
    LET v == CreateObject(g, [kind |-> "shader", pending |-> FALSE])
    IN IF outcome = "vertex"
       THEN [shader |-> 0, gl |-> v.gl, err |-> TRUE]
       ELSE
       LET f == CreateObject(v.gl, [kind |-> "shader", pending |-> FALSE])
       IN IF outcome = "fragment"
          THEN [shader |-> 0, gl |-> DeleteShader(f.gl, v.name), err |-> TRUE]
          ELSE
          LET pr == CreateObject(f.gl, [kind |-> "program",
                                        shaders |-> {v.name, f.name}])
              d  == DeleteShader(DeleteShader(pr.gl, f.name), v.name)
          IN IF outcome = "link"
             THEN [shader |-> 0, gl |-> d, err |-> TRUE]
             ELSE [shader |-> pr.name, gl |-> d, err |-> FALSE]

\* Shader.Release: gl.DeleteShader on the program's name.
ShaderRelease(sh, g) == DeleteShader(g, sh)

-----------------------------------------------------------------------------
(* Simulation.                                                             *)

\* What the driver answers during one NewSimulation: the outcome of the
\* compile and whether each state's framebuffer is complete.
Drivers == [compile : CompileOutcomes, complete : BOOLEAN \X BOOLEAN]

GoodDriver == [compile |-> "ok", complete |-> <<TRUE, TRUE>>]

\* Simulation.Release
SimulationRelease(s, g) ==
    LET g1 == [g EXCEPT !.buf = DeleteName(g.buf, s.vbo),
                        !.vao = DeleteName(g.vao, s.vao)]
    IN Release(s.output, Release(s.input, ShaderRelease(s.shader, g1)))

\* var s Simulation
ZeroSimulation ==
    [shader |-> 0, input |-> ZeroState, output |-> ZeroState, vao |-> 0,
     vbo |-> 0]

\* NewSimulation: the simulation (None for nil), the GL objects, the error.
NewSimulation(width, height, g, fill, drv) ==
    LET size == <<width, height>>
        c == compile(g, drv.compile)
        a == SimulationStateInit(ZeroState, size, c.gl, fill, drv.complete[1])
        b == SimulationStateInit(ZeroState, size, a.gl, fill, drv.complete[2])
        s == [ZeroSimulation EXCEPT !.shader = c.shader, !.input = a.ss,
                                    !.output = b.ss]
        va == GenName(b.gl.vao)
        vb == GenName(b.gl.buf)
    IN IF c.err
       THEN [sim |-> None, gl |-> c.gl, err |-> TRUE]
       ELSE IF a.err
       THEN [sim |-> None, gl |-> a.gl, err |-> TRUE]
       ELSE IF b.err
       THEN [sim |-> None, gl |-> SimulationRelease(s, b.gl), err |-> TRUE]
       ELSE [sim |-> [s EXCEPT !.vao = va, !.vbo = vb],
             gl  |-> [b.gl EXCEPT !.vao[va] = [buffer |-> vb],
                                  !.buf[vb] = [verts |-> 6]],
             err |-> FALSE]

\* LoadSimulation, from the decoded image on: NewSimulation(b.Dx(), b.Dy()),
\* then input.SetData(pal.toInternalFormat(img)).
LoadSimulation(im, p, g, fill, drv) ==
    LET r == NewSimulation(im.w, im.h, g, fill, drv)
        d == toInternalFormat(p, im)
        w == SetData(r.sim.input, d.pix, d.size, r.gl, 0)
    IN IF r.err THEN r
       ELSE [sim |-> [r.sim EXCEPT !.input = w.ss], gl |-> w.gl, err |-> FALSE]

\* The texture Simulation.Image reads (the colour attachment of input.fbo)
\* and the texture Simulation.Bind binds (input.tex).
ImageSource(s, g) == g.tex[g.fbo[s.input.fbo].color]
BindSource(s, g) == g.tex[s.input.tex]

\* Faulty variant of one pass: the states are not swapped after the draw.
StepPass_noSwap(s, g, viewport) ==
    LET target == g.fbo[s.output.fbo].color
    IN [sim |-> s,
        gl  |-> [g EXCEPT !.tex[target] =
                    DrawArrays(g.tex[s.input.tex], g.tex[target], viewport),
                          !.boundTex = 0, !.boundFbo = 0],
        heads |-> DrawHeads(g.tex[s.input.tex], viewport)]

\* One iteration of the loop of Step: output.BindBuffer, input.BindTexture,
\* DrawArrays, unbind both, then s.output, s.input = s.input, s.output.
StepPass(s, g, viewport) ==
    LET target == g.fbo[s.output.fbo].color
    IN [sim |-> [s EXCEPT !.input = s.output, !.output = s.input],
        gl  |-> [g EXCEPT !.tex[target] =
                    DrawArrays(g.tex[s.input.tex], g.tex[target], viewport),
                          !.boundTex = 0, !.boundFbo = 0],
        heads |-> DrawHeads(g.tex[s.input.tex], viewport)]

\* for i := 0; i < n; i++ { ... }, from the state r = [sim, gl, heads].
RECURSIVE StepLoop(_, _, _, _)
StepLoop(r, i, n, viewport) ==
    IF i >= n THEN r
    ELSE StepLoop(StepPass(r.sim, r.gl, viewport), i + 1, n, viewport)

\* Faulty variant: the loop body runs once whatever n is.
Step_onePass(s, g, hd, n) ==
    IF n < 1 THEN [sim |-> s, gl |-> g, heads |-> hd]
    ELSE StepLoop([sim |-> s, gl |-> g, heads |-> hd], 0, 1, s.input.size)

\* Faulty variant: no early return, and the loop body runs at least once.
Step_noGuard(s, g, hd, n) ==
    StepLoop([sim |-> s, gl |-> g, heads |-> hd], 0, IF n < 1 THEN 1 ELSE n,
             s.input.size)

\* Simulation.Step(n); hd is the head counts of the last draw so far.
Step(s, g, hd, n) ==
    IF n < 1 THEN [sim |-> s, gl |-> g, heads |-> hd]
    ELSE StepLoop([sim |-> s, gl |-> g, heads |-> hd], 0, n, s.input.size)

\* k calls of Step(1), one after the other.
RECURSIVE StepSingly(_, _)
StepSingly(r, k) ==
    IF k < 1 THEN r
    ELSE StepSingly(Step(r.sim, r.gl, r.heads, 1), k - 1)

\* Simulation.Image: input.Data() painted with the palette.
Image(s, g, p) == fromInternalFormat(p, Data(s.input, g), s.input.size)

-----------------------------------------------------------------------------
(* 64-bit integers.  Go's int (on a 64-bit build) and uint64 are sequences *)
(* of 8 bytes, least significant first, negative values in two's           *)
(* complement; arithmetic wraps modulo 2^64.                               *)

Limbs == 8

\* The int64 with the value n, for 0 <= n < 2^31.
I64(n) == [i \in 1..Limbs |->
             IF i = 1 THEN n % 256
             ELSE IF i = 2 THEN (n \div 256) % 256
             ELSE IF i = 3 THEN (n \div 65536) % 256
             ELSE IF i = 4 THEN (n \div 16777216) % 256
             ELSE 0]

IsNeg(a) == a[Limbs] >= 128

\* a * k + carry modulo 2^64, bytes i..8 computed onto the bytes of acc.
RECURSIVE MulAdd(_, _, _, _, _)
MulAdd(a, k, carry, i, acc) ==
    IF i > Limbs THEN acc
    ELSE MulAdd(a, k, (a[i] * k + carry) \div 256, i + 1,
                [acc EXCEPT ![i] = (a[i] * k + carry) % 256])

\* m *= 10
Mul10(a) == MulAdd(a, 10, 0, 1, a)

\* a + b modulo 2^64
RECURSIVE AddCarry(_, _, _, _, _)
AddCarry(a, b, carry, i, acc) ==
    IF i > Limbs THEN acc
    ELSE AddCarry(a, b, (a[i] + b[i] + carry) \div 256, i + 1,
                  [acc EXCEPT ![i] = (a[i] + b[i] + carry) % 256])

Add64(a, b) == AddCarry(a, b, 0, 1, a)

\* -a: the complement of every byte, plus one.
Neg64(a) == Add64([i \in 1..Limbs |-> 255 - a[i]], I64(1))

\* The unsigned quotient a / k, from the most significant byte down.
RECURSIVE DivDown(_, _, _, _, _)
DivDown(a, k, rem, i, acc) ==
    IF i < 1 THEN acc
    ELSE DivDown(a, k, (rem * 256 + a[i]) % k, i - 1,
                 [acc EXCEPT ![i] = (rem * 256 + a[i]) \div k])

\* m /= 10: Go's signed division truncates toward zero.
Div10(a) ==
    IF IsNeg(a) THEN Neg64(DivDown(Neg64(a), 10, 0, Limbs, a))
    ELSE DivDown(a, 10, 0, Limbs, a)

\* m > 1 and n < 1 on an int.
GreaterThanOne(a) == ~IsNeg(a) /\ a # I64(0) /\ a # I64(1)
LessThanOne(a) == IsNeg(a) \/ a = I64(0)

\* Whether 0 <= a < 2^15, and the value of such an a.
IsSmall(a) == a[2] < 128 /\ \A i \in 3..Limbs : a[i] = 0
SmallValue(a) == a[1] + 256 * a[2]

-----------------------------------------------------------------------------
(* The application's clock.  Durations are nanoseconds; an instant is the  *)
(* nanoseconds since the process started, or ZeroTime for the zero value   *)
(* of time.Time.                                                           *)

Nanosecond == 1
Millisecond == 1000000
Second == 1000000000

ZeroTime == -1

\* The largest Duration, to which Sub saturates; it stands for 1<<63 - 1.
MaxDuration == 2147483647

\* Time.Sub: the zero Time lies further back than a Duration can express.
Sub(t, u) == IF u = ZeroTime THEN MaxDuration ELSE t - u

\* The fields of Application that Initialize sets or leaves at their zero
\* value.
InitialApp ==
    [running |-> FALSE, stepTime |-> ZeroTime, titleUpdated |-> ZeroTime,
     stepInterval |-> Millisecond * 10, stepMultiplier |-> I64(1),
     clockCycles |-> I64(0)]

\* Application.decreaseClockspeed.  stepInterval * 10 > time.Second is
\* evaluated as stepInterval > time.Second / 10, which is the same for
\* integers because 10 divides time.Second.
decreaseClockspeed(a) ==
    IF GreaterThanOne(a.stepMultiplier)
    THEN [a EXCEPT !.stepMultiplier = Div10(@)]
    ELSE [a EXCEPT !.stepInterval =
             IF @ > Second \div 10 THEN Nanosecond ELSE @ * 10]

\* Application.increaseClockspeed
increaseClockspeed(a) ==
    IF a.stepInterval <= Millisecond
    THEN [a EXCEPT !.stepMultiplier = Mul10(@)]
    ELSE [a EXCEPT !.stepInterval =
             IF @ \div 10 < Millisecond THEN Millisecond ELSE @ \div 10]

\* Application.Update at the instant t: the title is refreshed once a
\* second; the clock fires when the application runs and the interval has
\* passed.  The result is the application and the outcome of Step.
StepCount(m) == IF IsSmall(m) THEN SmallValue(m) ELSE -1

Update(a, s, g, hd, t) ==
    LET a1 == IF Sub(t, a.titleUpdated) >= Second
              THEN [a EXCEPT !.titleUpdated = t] ELSE a
    IN IF a1.running /\ Sub(t, a1.stepTime) >= a1.stepInterval
       THEN [app  |-> [a1 EXCEPT !.stepTime = t,
                                 !.clockCycles = Add64(@, a1.stepMultiplier)],
             step |-> Step(s, g, hd, StepCount(a1.stepMultiplier))]
       ELSE [app |-> a1, step |-> [sim |-> s, gl |-> g, heads |-> hd]]

-----------------------------------------------------------------------------
(* Input images.                                                           *)

\* Pixel rows in which all but the pixels at the positions in S are bg.
Marked(n, bg, marks, most) ==
    UNION { { [i \in 1..n |-> IF i \in S THEN m[i] ELSE bg] : m \in [S -> marks] }
            : S \in { T \in SUBSET (1..n) : Cardinality(T) <= most } }

\* A colour no palette uses (an annotation drawn into the image).
Annotation == RGBA(255, 255, 0, 255)

\* Images of a simulation: drawn in the default palette, up to MaxMarked
\* pixels that are not background.
SimImages ==
    UNION { { [min |-> <<0, 0>>, w |-> w, h |-> h, pix |-> px] :
                px \in Marked(w * h, LoadDefault.Empty,
                              {LoadDefault.Wire, LoadDefault.Head,
                               LoadDefault.Tail}, MaxMarked) }
            : <<w, h>> \in { d \in (1..MaxW) \X (1..MaxH) : d[1] * d[2] <= MaxCells } }

-----------------------------------------------------------------------------
(* The simulation as the application drives it.                            *)

Init ==
    /\ pal = LoadDefault
    /\ img \in SimImages
    /\ \E fill \in UninitBytes :
         \E r \in {LoadSimulation(img, pal, NoGL, fill, GoodDriver)} :
            /\ sim = r.sim
            /\ gl = r.gl
            /\ single = [sim |-> r.sim, gl |-> r.gl]
            /\ before = BindSource(r.sim, r.gl).data
    /\ \E d \in {toInternalFormat(pal, img)} :
            /\ pix = d.pix
            /\ pixSize = d.size
    /\ loaded = pix
    /\ call = [op |-> "LoadSimulation", n |-> 0]
    /\ gen = 0
    /\ heads = <<>>
    /\ readback = <<>>
    /\ exported = None
    /\ err = FALSE
    /\ pass = None
    /\ app = InitialApp
    /\ now = 0
    /\ disk = None
    /\ saved = None
    /\ keys = None
    /\ held = None

\* Simulation.Step(n), as called by key E (n = 1) and by Update (n = the
\* step multiplier); n < 1 is included.
DoStep(n) ==
    /\ gen + (IF n < 1 THEN 0 ELSE n) <= MaxGen
    /\ \E r \in {Step(sim, gl, heads, n)},
          q \in {StepSingly([sim |-> single.sim, gl |-> single.gl,
                            heads |-> heads], n)} :
          /\ sim' = r.sim
          /\ gl' = r.gl
          /\ heads' = r.heads
          /\ single' = [sim |-> q.sim, gl |-> q.gl]
    /\ before' = BindSource(sim, gl).data
    /\ gen' = gen + (IF n < 1 THEN 0 ELSE n)
    /\ call' = [op |-> "Step", n |-> n]
    /\ readback' = <<>>
    /\ exported' = None
    /\ UNCHANGED <<disk, saved, pal, img, pix, pixSize, loaded>>
    /\ UNCHANGED otherVars

\* Simulation.Image(pal)
DoImage ==
    /\ readback' = Data(sim.input, gl)
    /\ exported' = Image(sim, gl, pal)
    /\ call' = [op |-> "Image", n |-> 0]
    /\ UNCHANGED <<disk, saved, pal, img, pix, pixSize, sim, gl, gen, loaded, before, heads,
                   single>>
    /\ UNCHANGED otherVars

Next == \E n \in (-1)..MaxN : DoStep(n)

Spec == Init /\ [][Next]_vars

\* The same simulation stepped with key E and exported with key F1.
NextExport == DoStep(1) \/ DoImage

SpecExport == Init /\ [][NextExport]_vars

-----------------------------------------------------------------------------
(* The two SimulationState values of a Simulation driven directly through  *)
(* Init, Release and SetData.                                              *)

States == {"input", "output"}

GridSizes == (0..MaxGridW) \X (0..MaxGridH)

\* Buffers of up to MaxBuf cell bytes: wire throughout.
Buffers == { [i \in 1..n |-> CellWire] : n \in 0..MaxBuf }

InitGrid ==
    /\ pal = LoadDefault
    /\ img = None
    /\ pix = <<>>
    /\ pixSize = <<0, 0>>
    /\ sim = ZeroSimulation
    /\ gl = NoGL
    /\ held = [w \in States |-> "never"]
    /\ call = [op |-> "var", which |-> "input", k |-> 0]
    /\ err = FALSE
    /\ gen = 0
    /\ loaded = <<>>
    /\ before = <<>>
    /\ heads = <<>>
    /\ single = None
    /\ readback = <<>>
    /\ exported = None
    /\ pass = None
    /\ app = InitialApp
    /\ now = 0
    /\ disk = None
    /\ saved = None
    /\ keys = None

\* sim.<which>.Init(size), the framebuffer being complete
GridInit(which, size, fill) ==
    /\ call.k < MaxCalls
    /\ \E r \in {SimulationStateInit(sim[which], size, gl, fill, TRUE)} :
          /\ sim' = [sim EXCEPT ![which] = r.ss]
          /\ gl' = r.gl
          /\ err' = r.err
    /\ held' = IF size[1] < 1 \/ size[2] < 1 THEN held
               ELSE [held EXCEPT ![which] = "held"]
    /\ call' = [op |-> "Init", which |-> which, k |-> call.k + 1]
    /\ UNCHANGED <<disk, saved, pal, img, pix, pixSize, gen, loaded, before, heads, single,
                   readback, exported, pass, app, now, keys>>

\* sim.<which>.Release()
GridRelease(which) ==
    /\ call.k < MaxCalls
    /\ gl' = Release(sim[which], gl)
    /\ held' = [held EXCEPT ![which] = IF @ = "held" THEN "released" ELSE @]
    /\ err' = FALSE
    /\ call' = [op |-> "Release", which |-> which, k |-> call.k + 1]
    /\ UNCHANGED <<disk, saved, pal, img, pix, pixSize, sim, gen, loaded, before, heads,
                   single, readback, exported, pass, app, now, keys>>

\* sim.<which>.SetData(bytes, size); the method returns nothing.
GridSetData(which, bytes, size, beyond) ==
    /\ call.k < MaxCalls
    /\ held[which] = "held"
    /\ \E r \in {SetData(sim[which], bytes, size, gl, beyond)} :
          /\ sim' = [sim EXCEPT ![which] = r.ss]
          /\ gl' = r.gl
    /\ pix' = bytes
    /\ pixSize' = size
    /\ err' = FALSE
    /\ call' = [op |-> "SetData", which |-> which, k |-> call.k + 1]
    /\ UNCHANGED <<disk, saved, pal, img, gen, loaded, before, heads, single, readback,
                   exported, pass, app, now, keys, held>>

NextGrid ==
    \/ \E which \in States, size \in GridSizes, fill \in UninitBytes :
          GridInit(which, size, fill)
    \/ \E which \in States : GridRelease(which)
    \/ \E which \in States, bytes \in Buffers, size \in GridSizes,
          beyond \in UninitBytes : GridSetData(which, bytes, size, beyond)

SpecGrid == InitGrid /\ [][NextGrid]_vars

-----------------------------------------------------------------------------
(* Construction and release of a Simulation, with a driver that may fail   *)
(* the compile or report an incomplete framebuffer.                        *)

InitNew ==
    /\ pal = LoadDefault
    /\ img = None
    /\ pix = <<>>
    /\ pixSize = <<0, 0>>
    /\ sim = None
    /\ gl = NoGL
    /\ held = None
    /\ call = [op |-> "gl.Init", size |-> <<0, 0>>, drv |-> GoodDriver]
    /\ err = FALSE
    /\ gen = 0
    /\ loaded = <<>>
    /\ before = <<>>
    /\ heads = <<>>
    /\ single = None
    /\ readback = <<>>
    /\ exported = None
    /\ pass = None
    /\ app = InitialApp
    /\ now = 0
    /\ disk = None
    /\ saved = None
    /\ keys = None

\* sim, err := NewSimulation(width, height)
DoNewSimulation(width, height, fill, drv) ==
    /\ call.op = "gl.Init"
    /\ \E r \in {NewSimulation(width, height, gl, fill, drv)} :
          /\ sim' = r.sim
          /\ gl' = r.gl
          /\ err' = r.err
    /\ call' = [op |-> "NewSimulation", size |-> <<width, height>>, drv |-> drv]
    /\ UNCHANGED <<disk, saved, pal, img, pix, pixSize, gen, loaded, before, heads, single,
                   readback, exported, pass, app, now, keys, held>>

\* sim.Release()
DoSimulationRelease ==
    /\ call.op = "NewSimulation"
    /\ sim # None
    /\ gl' = SimulationRelease(sim, gl)
    /\ err' = FALSE
    /\ call' = [call EXCEPT !.op = "Release"]
    /\ UNCHANGED <<disk, saved, pal, img, pix, pixSize, sim, gen, loaded, before, heads,
                   single, readback, exported, pass, app, now, keys, held>>

NextNew ==
    \/ \E size \in GridSizes, fill \in UninitBytes, drv \in Drivers :
          DoNewSimulation(size[1], size[2], fill, drv)
    \/ DoSimulationRelease

SpecNew == InitNew /\ [][NextNew]_vars

-----------------------------------------------------------------------------
(* The clock under the W and S keys.  keys counts the presses and keeps,   *)
(* while the presses so far are W presses followed by S presses, the clock *)
(* states the W presses went through.                                      *)

ClockOf(a) == <<a.stepInterval, a.stepMultiplier>>

InitClock ==
    /\ pal = LoadDefault
    /\ img = None
    /\ pix = <<>>
    /\ pixSize = <<0, 0>>
    /\ sim = None
    /\ gl = NoGL
    /\ held = None
    /\ call = [op |-> "Initialize", n |-> 0]
    /\ err = FALSE
    /\ gen = 0
    /\ loaded = <<>>
    /\ before = <<>>
    /\ heads = <<>>
    /\ single = None
    /\ readback = <<>>
    /\ exported = None
    /\ pass = None
    /\ app = InitialApp
    /\ now = 0
    /\ disk = None
    /\ saved = None
    /\ keys = [n |-> 0, run |-> "up", trail |-> <<ClockOf(InitialApp)>>]

\* keyCallback, glfw.KeyW
KeyW ==
    /\ keys.n < MaxKeys
    /\ app' = increaseClockspeed(app)
    /\ keys' = IF keys.run = "up"
               THEN [keys EXCEPT !.n = @ + 1,
                                 !.trail = Append(@, ClockOf(app'))]
               ELSE [keys EXCEPT !.n = @ + 1, !.run = "off"]
    /\ call' = [op |-> "KeyW", n |-> 0]
    /\ UNCHANGED <<disk, saved, pal, img, pix, pixSize, sim, gl, gen, loaded, before, heads,
                   single, readback, exported, err, pass, now, held>>

\* keyCallback, glfw.KeyS
KeyS ==
    /\ keys.n < MaxKeys
    /\ app' = decreaseClockspeed(app)
    /\ keys' = IF keys.run \in {"up", "down"} /\ Len(keys.trail) > 1
               THEN [keys EXCEPT !.n = @ + 1, !.run = "down",
                                 !.trail = SubSeq(@, 1, Len(@) - 1)]
               ELSE [keys EXCEPT !.n = @ + 1, !.run = "off"]
    /\ call' = [op |-> "KeyS", n |-> 0]
    /\ UNCHANGED <<disk, saved, pal, img, pix, pixSize, sim, gl, gen, loaded, before, heads,
                   single, readback, exported, err, pass, now, held>>

NextClock == KeyW \/ KeyS

SpecClock == InitClock /\ [][NextClock]_vars

-----------------------------------------------------------------------------
(* The host loop: Update on every tick, key Q to start and stop.  The      *)
(* clock starts in a state some run of W presses or of S presses leaves.   *)

RECURSIVE Pressed(_, _, _)
Pressed(a, key, k) ==
    IF k = 0 THEN a
    ELSE Pressed(IF key = "W" THEN increaseClockspeed(a)
                 ELSE decreaseClockspeed(a), key, k - 1)

TickApps == { Pressed(InitialApp, key, k) : key \in {"W", "S"}, k \in 0..MaxKeys }

\* The instants at which Update may run next.
Advances == {Millisecond * 5, Millisecond * 10}

InitTick ==
    /\ Init
    /\ img.w * img.h <= MaxTickCells

\* The W or S presses made before the simulation is started.
PressKeys ==
    /\ call.op = "LoadSimulation"
    /\ app' \in TickApps
    /\ call' = [op |-> "keyCallback", n |-> 0]
    /\ UNCHANGED <<disk, saved, pal, img, pix, pixSize, sim, gl, gen, loaded, before, heads,
                   single, readback, exported, err, pass, now, keys, held>>

\* keyCallback, glfw.KeyQ
KeyQ ==
    /\ call.op # "LoadSimulation"
    /\ app' = [app EXCEPT !.running = ~@]
    /\ call' = [op |-> "KeyQ", n |-> 0]
    /\ UNCHANGED <<disk, saved, pal, img, pix, pixSize, sim, gl, gen, loaded, before, heads,
                   single, readback, exported, err, pass, now, keys, held>>

\* One iteration of the main loop: Application.Update at a later instant.
\* A Step call of more than MaxTickSteps passes is not carried out.
Tick(d) ==
    /\ call.op # "LoadSimulation"
    /\ now + d <= MaxNow
    /\ \/ LessThanOne(app.stepMultiplier)
       \/ IsSmall(app.stepMultiplier)
          /\ SmallValue(app.stepMultiplier) <= MaxTickSteps
    /\ now' = now + d
    /\ \E r \in {Update(app, sim, gl, heads, now + d)} :
          /\ app' = r.app
          /\ sim' = r.step.sim
          /\ gl' = r.step.gl
          /\ heads' = r.step.heads
          /\ gen' = IF r.app.stepTime = now + d /\ StepCount(app.stepMultiplier) > 0
                    THEN gen + StepCount(app.stepMultiplier) ELSE gen
    /\ before' = BindSource(sim, gl).data
    /\ call' = [op |-> "Update", n |-> 0]
    /\ UNCHANGED <<disk, saved, pal, img, pix, pixSize, loaded, single, readback,
                   exported, err, pass, keys, held>>

NextTick == PressKeys \/ KeyQ \/ (\E d \in Advances : Tick(d))

SpecTick == InitTick /\ [][NextTick]_vars

-----------------------------------------------------------------------------
(* One pass of Step, fragment by fragment.  The GPU runs main() once per   *)
(* texel of the render target, in no particular order; each invocation     *)
(* samples the texture bound to unit 0 and writes its own texel of the     *)
(* colour attachment of the bound framebuffer.                             *)

\* Faulty variant: the texture of the render target is bound as the input.
BindPass_inPlace(s, g) ==
    [g EXCEPT !.boundFbo = s.output.fbo, !.boundTex = s.output.tex]

\* s.output.BindBuffer() and s.input.BindTexture()
BindPass(s, g) ==
    [g EXCEPT !.boundFbo = s.output.fbo, !.boundTex = s.input.tex]

\* main() for fragment i of the viewport (counted row by row from 1).
Fragment(g, i, viewport) ==
    LET x == (i - 1) % viewport[1]
        y == (i - 1) \div viewport[1]
        target == g.fbo[g.boundFbo].color
    IN [g EXCEPT !.tex[target].data[y * g.tex[target].w + x + 1] =
                     ShaderMain(g.tex[g.boundTex], x, y)]

\* The end of the loop body: both unbound, then the states swapped.
UnbindPass(s, g) ==
    [sim |-> [s EXCEPT !.input = s.output, !.output = s.input],
     gl  |-> [g EXCEPT !.boundTex = 0, !.boundFbo = 0]]

InitPass ==
    /\ Init
    /\ img.w * img.h <= MaxPassCells

\* The draw call is issued: pass records the fragments still to be shaded,
\* the two surfaces as they are now, and what DrawArrays makes of them.
BeginPass ==
    /\ pass = None
    /\ gen < MaxGen
    /\ gl' = BindPass(sim, gl)
    /\ pass' = [pending |-> 1..(sim.input.size[1] * sim.input.size[2]),
                front   |-> gl.tex[sim.input.tex].data,
                back    |-> gl.tex[gl.fbo[sim.output.fbo].color].data,
                drawn   |-> DrawArrays(gl.tex[sim.input.tex],
                                       gl.tex[gl.fbo[sim.output.fbo].color],
                                       sim.input.size).data]
    /\ before' = gl.tex[sim.input.tex].data
    /\ call' = [op |-> "DrawArrays", n |-> 0]
    /\ readback' = <<>>
    /\ exported' = None
    /\ UNCHANGED <<disk, saved, pal, img, pix, pixSize, sim, gen, loaded, heads, single,
                   err, app, now, keys, held>>

\* One fragment is shaded.
ShadeFragment(i) ==
    /\ pass # None
    /\ i \in pass.pending
    /\ gl' = Fragment(gl, i, sim.input.size)
    /\ pass' = [pass EXCEPT !.pending = @ \ {i}]
    /\ call' = [op |-> "main", n |-> i]
    /\ UNCHANGED <<disk, saved, pal, img, pix, pixSize, sim, gen, loaded, before, heads,
                   single, readback, exported, err, app, now, keys, held>>

\* All fragments are shaded: the loop body finishes.
EndPass ==
    /\ pass # None
    /\ pass.pending = {}
    /\ sim' = UnbindPass(sim, gl).sim
    /\ gl' = UnbindPass(sim, gl).gl
    /\ heads' = DrawHeads(gl.tex[sim.input.tex], sim.input.size)
    /\ gen' = gen + 1
    /\ pass' = None
    /\ call' = [op |-> "Step", n |-> 1]
    /\ UNCHANGED <<disk, saved, pal, img, pix, pixSize, loaded, before, single, readback,
                   exported, err, app, now, keys, held>>

NextPass == BeginPass \/ (\E i \in 1..MaxPassCells : ShadeFragment(i)) \/ EndPass

SpecPass == InitPass /\ [][NextPass]_vars

-----------------------------------------------------------------------------
(* The palette on its own: any configurable palette, images whose bounds   *)
(* need not start at (0, 0), pixels of either colour type and any alpha.   *)

PaletteColours(p) == {p.Empty, p.Wire, p.Head, p.Tail}

\* Pixels an image decoder can deliver: opaque colours of the palette, an
\* annotation colour, the fully transparent zero pixel, and palette colours
\* with a lower alpha (non-premultiplied, as decoded from a PNG).
PixelColours(p) ==
    PaletteColours(p) \cup {Annotation, RGBA(0, 0, 0, 0)}
        \cup { NRGBA(c.R, c.G, c.B, 128) : c \in {p.Wire, p.Head, p.Tail} }

Origins == {<<0, 0>>, <<MaxOrigin, MaxOrigin + 1>>}

PaletteImages(p) ==
    UNION { { [min |-> o, w |-> w, h |-> h, pix |-> px] :
                px \in Marked(w * h, p.Empty, PixelColours(p), MaxOdd),
                o \in Origins }
            : <<w, h>> \in { d \in (1..MaxImgW) \X (1..MaxImgH) :
                                d[1] * d[2] <= MaxImgCells } }

InitPalette ==
    /\ pal \in Palettes
    /\ img \in PaletteImages(pal)
    /\ pix = <<>>
    /\ pixSize = <<0, 0>>
    /\ exported = None
    /\ call = [op |-> "parseArgs", n |-> 0]
    /\ sim = None
    /\ gl = NoGL
    /\ gen = 0
    /\ loaded = <<>>
    /\ before = <<>>
    /\ heads = <<>>
    /\ single = None
    /\ readback = <<>>
    /\ err = FALSE
    /\ pass = None
    /\ app = InitialApp
    /\ now = 0
    /\ disk = None
    /\ saved = None
    /\ keys = None
    /\ held = None

\* Palette.toInternalFormat(img)
DoToInternal ==
    /\ call.op = "parseArgs"
    /\ pix' = toInternalFormat(pal, img).pix
    /\ pixSize' = toInternalFormat(pal, img).size
    /\ call' = [op |-> "toInternalFormat", n |-> 0]
    /\ UNCHANGED <<disk, saved, pal, img, sim, gl, gen, loaded, before, heads, single,
                   readback, exported>>
    /\ UNCHANGED otherVars

\* Palette.fromInternalFormat(pix, size) on the buffer just decoded
DoFromInternal ==
    /\ call.op = "toInternalFormat"
    /\ exported' = fromInternalFormat(pal, pix, pixSize)
    /\ call' = [op |-> "fromInternalFormat", n |-> 0]
    /\ UNCHANGED <<disk, saved, pal, img, pix, pixSize, sim, gl, gen, loaded, before, heads,
                   single, readback>>
    /\ UNCHANGED otherVars

NextPalette == DoToInternal \/ DoFromInternal

SpecPalette == InitPalette /\ [][NextPalette]_vars

-----------------------------------------------------------------------------
(* Reference definitions the properties are stated with.                   *)

Canonical == {CellEmpty, CellWire, CellTail, CellHead}

Offsets8 == {<<-1, 1>>, <<0, 1>>, <<1, 1>>, <<-1, 0>>, <<1, 0>>,
             <<-1, -1>>, <<0, -1>>, <<1, -1>>}

\* Cell (x, y) of a w-wide grid stored row by row.
CellOf(grid, w, x, y) == grid[y * w + x + 1]

\* Number of the 8 neighbour offsets of (x, y) that lead, on the torus, to
\* a Head cell.
HeadOffsets(grid, w, h, x, y) ==
    Cardinality({ o \in Offsets8 :
        CellOf(grid, w, (x + o[1] + w) % w, (y + o[2] + h) % h) = CellHead })

\* The Wireworld transition table.
Table(c, k) ==
    CASE c = CellEmpty -> CellEmpty
      [] c = CellHead -> CellTail
      [] c = CellTail -> CellWire
      [] c = CellWire -> IF k \in {1, 2} THEN CellHead ELSE CellWire
      [] OTHER -> c

\* One generation of a whole grid, and k generations.
NextGeneration(grid, w, h) ==
    [i \in 1..(w * h) |->
        Table(grid[i], HeadOffsets(grid, w, h, (i - 1) % w, (i - 1) \div w))]

RECURSIVE Generation(_, _, _, _)
Generation(grid, w, h, k) ==
    IF k = 0 THEN grid
    ELSE CHOOSE r \in { Generation(next, w, h, k - 1) :
                          next \in {NextGeneration(grid, w, h)} } : TRUE

Front == BindSource(sim, gl).data
Width == sim.input.size[1]
Height == sim.input.size[2]

-----------------------------------------------------------------------------
(* Cell states through the palette and back: a buffer of cell bytes is     *)
(* painted by fromInternalFormat and the picture is read by                *)
(* toInternalFormat, as saveState followed by loadState does.              *)

CellBuffers ==
    UNION { { [size |-> d, bytes |-> b] :
                b \in [1..(d[1] * d[2]) -> {CellEmpty, CellWire, CellTail, CellHead}] }
            : d \in { e \in (1..MaxImgW) \X (1..MaxImgH) :
                        e[1] * e[2] <= MaxImgCells } }

InitCodec ==
    /\ pal \in Palettes
    /\ \E c \in CellBuffers : pix = c.bytes /\ pixSize = c.size
    /\ img = None
    /\ exported = None
    /\ call = [op |-> "parseArgs", n |-> 0]
    /\ sim = None
    /\ gl = NoGL
    /\ gen = 0
    /\ loaded = <<>>
    /\ before = <<>>
    /\ heads = <<>>
    /\ single = None
    /\ readback = <<>>
    /\ err = FALSE
    /\ pass = None
    /\ app = InitialApp
    /\ now = 0
    /\ disk = None
    /\ saved = None
    /\ keys = None
    /\ held = None

\* Palette.fromInternalFormat(pix, size)
DoEncode ==
    /\ call.op = "parseArgs"
    /\ exported' = fromInternalFormat(pal, pix, pixSize)
    /\ call' = [op |-> "fromInternalFormat", n |-> 0]
    /\ UNCHANGED <<disk, saved, pal, img, pix, pixSize, sim, gl, gen, loaded, before, heads,
                   single, readback>>
    /\ UNCHANGED otherVars

\* Palette.toInternalFormat on the picture just painted
DoDecode ==
    /\ call.op = "fromInternalFormat"
    /\ readback' = toInternalFormat(pal, exported).pix
    /\ call' = [op |-> "toInternalFormat", n |-> 0]
    /\ UNCHANGED <<disk, saved, pal, img, pix, pixSize, sim, gl, gen, loaded, before, heads,
                   single, exported>>
    /\ UNCHANGED otherVars

NextCodec == DoEncode \/ DoDecode

SpecCodec == InitCodec /\ [][NextCodec]_vars

-----------------------------------------------------------------------------
(* State files.  A file name is the sequence of its parts between dots:    *)
(* "5.circuit.png" is <<"5", "circuit", "png">>.  No part of the names     *)
(* used here starts with another part, so removing every occurrence of an  *)
(* extension from a name removes whole parts.  disk.dir is the directory   *)
(* part of Config.Input as filepath.Split returns it ("" for a bare file   *)
(* name), disk.name its file part, disk.files the files of that directory. *)
(* Time stamps are small numbers; now is time.Now().UnixNano().            *)

MaxStamp == 3
MaxOps == 3
MaxFileW == 1
MaxFileH == 2

\* The decimal text of a time stamp.
StampText == <<"1", "2", "3", "4", "5", "6", "7", "8", "9">>

\* fmt.Sprintf("%d", stamp)
FormatInt(n) == StampText[n]

\* strconv.ParseInt(left, 10, 64): whether it succeeds, and the value.
IsNumeral(part) == \E n \in 1..Len(StampText) : StampText[n] = part
ParseInt(part) == CHOOSE n \in 1..Len(StampText) : StampText[n] = part

\* strings.Replace(name, filepath.Ext(name), "", -1): a name without a dot
\* has the extension "" and is left as it is; otherwise every ".ext" in the
\* name is removed.
TrimExt(name) ==
    IF Len(name) <= 1 THEN name
    ELSE <<name[1]>> \o SelectSeq(Tail(name), LAMBDA part : part # name[Len(name)])

\* The name saveState writes: fmt.Sprintf("%d.%s.png", stamp, name).
SaveFileName(stamp, name) == <<FormatInt(stamp)>> \o TrimExt(name) \o <<"png">>

\* The name loadState reads: fmt.Sprintf("%d.%s", stamps[0], name).
LoadFileName(stamp, name) == <<FormatInt(stamp)>> \o name

\* strings.HasSuffix(file, "."+name)
HasSuffix(file, name) ==
    /\ Len(file) > Len(name)
    /\ SubSeq(file, Len(file) - Len(name) + 1, Len(file)) = name

\* findStateFiles(dir, name): os.Open("") fails, so a bare input name finds
\* nothing; otherwise the number before the first dot of every file that
\* ends in "."+name, where that is a number.
findStateFiles(d) ==
    IF d.dir = "" THEN {}
    ELSE { ParseInt(f.name[1]) :
             f \in { e \in d.files : HasSuffix(e.name, d.name)
                                      /\ IsNumeral(e.name[1]) } }

\* stamps[0] after sort.Slice in descending order.
Latest(stamps) == CHOOSE n \in stamps : \A m \in stamps : m <= n

\* png.Encode of an opaque image writes 8-bit RGB; image.Decode returns
\* the pixels with alpha 255 and bounds from (0, 0).
Encode(im) ==
    [w |-> im.w, h |-> im.h,
     rgb |-> [i \in 1..Len(im.pix) |-> <<im.pix[i].R, im.pix[i].G, im.pix[i].B>>]]
Decode(data) ==
    [min |-> <<0, 0>>, w |-> data.w, h |-> data.h,
     pix |-> [i \in 1..Len(data.rgb) |->
                 RGBA(data.rgb[i][1], data.rgb[i][2], data.rgb[i][3], 255)]]

\* os.Create, png.Encode and Close: the file is created or replaced.
WriteFile(files, name, data) ==
    { f \in files : f.name # name } \cup {[name |-> name, data |-> data]}

\* LoadSimulation(file, pal): os.Open and image.Decode, then the rest.
LoadSimulationFile(d, name, p, g, fill) ==
    IF \A f \in d.files : f.name # name
    THEN [sim |-> None, gl |-> g, err |-> TRUE]
    ELSE LoadSimulation(Decode((CHOOSE f \in d.files : f.name = name).data),
                        p, g, fill, GoodDriver)

\* Application.reload: the result of LoadSimulation(a.config.Input, ...),
\* which is assigned to a.simulation whether or not it is an error.
reload(d, p, g, fill) == LoadSimulationFile(d, d.name, p, g, fill)

\* The file loadState loads: without a state file it calls reload, which
\* loads a.config.Input; otherwise the file named after the highest stamp.
StateFile(d) ==
    IF findStateFiles(d) = {} THEN d.name
    ELSE LoadFileName(Latest(findStateFiles(d)), d.name)

\* Application.saveState at the instant stamp: the files afterwards.
saveState(d, s, g, p, stamp) ==
    WriteFile(d.files, SaveFileName(stamp, d.name), Encode(Image(s, g, p)))

\* Application.Release, as far as the simulation goes.
ApplicationRelease(s, g) == IF s = None THEN g ELSE SimulationRelease(s, g)

\* Input files: a PNG and a GIF.
InputNames == {<<"circuit", "png">>, <<"circuit", "gif">>}

Dirs == {"", "circuits/"}

\* The input pictures: up to MaxFileW by MaxFileH cells, at most one of
\* them not Empty.
FileImages ==
    UNION { { [min |-> <<0, 0>>, w |-> d[1], h |-> d[2], pix |-> px] :
                px \in Marked(d[1] * d[2], LoadDefault.Empty,
                              {LoadDefault.Wire, LoadDefault.Head,
                               LoadDefault.Tail}, 1) }
            : d \in (1..MaxFileW) \X (1..MaxFileH) }

\* The picture of a state file saved earlier for another input.
OtherState ==
    [min |-> <<0, 0>>, w |-> 1, h |-> 1, pix |-> <<LoadDefault.Tail>>]

\* The directory at start: the input file, and perhaps a state file that
\* was saved at instant 1 for the input "x.<input>".
Directories(name, im) ==
    { {[name |-> name, data |-> Encode(im)]},
      {[name |-> name, data |-> Encode(im)],
       [name |-> SaveFileName(1, <<"x">> \o name), data |-> Encode(OtherState)]} }

\* Whether the names of one more simulation are free.
Room(g) ==
    /\ Cardinality({ n \in Names : g.obj[n] = None }) >= 3
    /\ \A table \in {g.tex, g.fbo, g.rbo} :
          Cardinality({ n \in Names : table[n] = None }) >= 2
    /\ \E n \in Names : g.vao[n] = None
    /\ \E n \in Names : g.buf[n] = None

InitFiles ==
    /\ pal = LoadDefault
    /\ img \in FileImages
    /\ \E name \in InputNames, dir \in Dirs :
         \E files \in Directories(name, img) :
            disk = [dir |-> dir, name |-> name, files |-> files]
    /\ \E fill \in UninitBytes :
         \E r \in {LoadSimulation(img, pal, NoGL, fill, GoodDriver)} :
            /\ sim = r.sim
            /\ gl = r.gl
    /\ \E d \in {toInternalFormat(pal, img)} :
            /\ pix = d.pix
            /\ pixSize = d.size
    /\ loaded = pix
    /\ before = pix
    /\ saved = None
    /\ call = [op |-> "LoadSimulation", n |-> 0, k |-> 0]
    /\ now = 1
    /\ gen = 0
    /\ heads = <<>>
    /\ single = None
    /\ readback = <<>>
    /\ exported = None
    /\ err = FALSE
    /\ pass = None
    /\ app = InitialApp
    /\ keys = None
    /\ held = None

\* keyCallback, glfw.KeyE: a.simulation.Step(1)
FileKeyE ==
    /\ call.k < MaxOps
    /\ call.op # "Release"
    /\ sim # None
    /\ \E r \in {Step(sim, gl, heads, 1)} :
          /\ sim' = r.sim
          /\ gl' = r.gl
          /\ heads' = r.heads
    /\ before' = BindSource(sim, gl).data
    /\ gen' = gen + 1
    /\ err' = FALSE
    /\ call' = [op |-> "Step", n |-> 1, k |-> call.k + 1]
    /\ UNCHANGED <<disk, saved, pal, img, pix, pixSize, loaded, single,
                   readback, exported, pass, app, now, keys, held>>

\* keyCallback, glfw.KeyF1: saveState at a later instant
KeyF1(stamp) ==
    /\ call.k < MaxOps
    /\ call.op # "Release"
    /\ sim # None
    /\ stamp > now
    /\ now' = stamp
    /\ disk' = [disk EXCEPT !.files = saveState(disk, sim, gl, pal, stamp)]
    /\ saved' = [grid |-> BindSource(sim, gl).data, size |-> sim.input.size,
                 gen |-> gen]
    /\ readback' = Data(sim.input, gl)
    /\ exported' = Image(sim, gl, pal)
    /\ before' = BindSource(sim, gl).data
    /\ err' = FALSE
    /\ call' = [op |-> "saveState", n |-> stamp, k |-> call.k + 1]
    /\ UNCHANGED <<pal, img, pix, pixSize, sim, gl, gen, loaded, heads, single,
                   pass, app, keys, held>>

\* keyCallback, glfw.KeyF2 (loadState) and glfw.KeyF5 (reload): both end
\* in a.simulation, err = LoadSimulation(file, &a.config.Palette).
KeyLoad(key) ==
    /\ call.k < MaxOps
    /\ call.op # "Release"
    /\ Room(gl)
    /\ \E fill \in UninitBytes :
         \E r \in {LoadSimulationFile(disk, IF key = "F2" THEN StateFile(disk)
                                            ELSE disk.name, pal, gl, fill)} :
            /\ sim' = r.sim
            /\ gl' = r.gl
            /\ err' = r.err
            /\ gen' = IF r.err THEN gen ELSE 0
            /\ loaded' = IF r.err THEN loaded ELSE BindSource(r.sim, r.gl).data
    /\ before' = IF sim = None THEN before ELSE BindSource(sim, gl).data
    /\ call' = [op |-> IF key = "F2" THEN "loadState" ELSE "reload", n |-> 0,
                k |-> call.k + 1]
    /\ UNCHANGED <<disk, saved, pal, img, pix, pixSize, heads, single, readback,
                   exported, pass, app, now, keys, held>>

\* The input file is moved away while the program runs.
Unlink ==
    /\ call.k < MaxOps
    /\ call.op # "Release"
    /\ \E f \in disk.files : f.name = disk.name
    /\ disk' = [disk EXCEPT !.files = { f \in @ : f.name # disk.name }]
    /\ call' = [op |-> "unlink", n |-> 0, k |-> call.k + 1]
    /\ UNCHANGED <<saved, pal, img, pix, pixSize, sim, gl, gen, loaded, before,
                   heads, single, readback, exported, err, pass, app, now,
                   keys, held>>

\* The window is closed: the deferred app.Release() of main runs.
Quit ==
    /\ call.op # "Release"
    /\ gl' = ApplicationRelease(sim, gl)
    /\ sim' = None
    /\ err' = FALSE
    /\ call' = [op |-> "Release", n |-> 0, k |-> call.k]
    /\ UNCHANGED <<disk, saved, pal, img, pix, pixSize, gen, loaded, before,
                   heads, single, readback, exported, pass, app, now, keys,
                   held>>

NextFiles ==
    \/ FileKeyE
    \/ \E stamp \in 1..MaxStamp : KeyF1(stamp)
    \/ \E key \in {"F2", "F5"} : KeyLoad(key)
    \/ Unlink
    \/ Quit

SpecFiles == InitFiles /\ [][NextFiles]_vars

-----------------------------------------------------------------------------
(* Properties of the simulation.                                           *)

\* C1: after Step(1) every cell of the front grid is the Wireworld table
\* applied to the previous generation: Empty stays Empty, Head becomes Tail,
\* Tail becomes Wire, and Wire becomes Head exactly when 1 or 2 of its 8
\* neighbour offsets hold a Head, and stays Wire otherwise.
C1_RuleTable ==
    (call.op = "Step" /\ call.n = 1) =>
        \A x \in 0..(Width - 1), y \in 0..(Height - 1) :
            LET c == CellOf(before, Width, x, y)
                k == HeadOffsets(before, Width, Height, x, y)
                d == CellOf(Front, Width, x, y)
            IN /\ c = CellEmpty => d = CellEmpty
               /\ c = CellHead => d = CellTail
               /\ c = CellTail => d = CellWire
               /\ c = CellWire => (d = CellHead <=> k \in {1, 2})
               /\ c = CellWire => d \in {CellHead, CellWire}

\* A 3x3 grid in which Step(1) turned a wire into a head and the head it
\* saw into a tail.
C1_Witness ==
    /\ call.op = "Step" /\ call.n = 1
    /\ Width = 3 /\ Height = 3
    /\ \E i, j \in 1..9 :
         /\ before[i] = CellWire /\ Front[i] = CellHead
         /\ before[j] = CellHead /\ Front[j] = CellTail

\* C2: the neighbour lookup wraps in both axes: a Head in column 0 is
\* counted for a Wire in the last column of the same row and vice versa,
\* likewise for the first and last rows; and where the Head across the edge
\* is the only Head of a grid at least 3 wide and 3 high, it is counted once
\* and the Wire becomes a Head.
C2_ToroidalWrap ==
    (call.op = "Step" /\ call.n = 1) =>
        /\ \A y \in 0..(Height - 1) : \A a, b \in {0, Width - 1} :
              (a # b /\ CellOf(before, Width, a, y) = CellHead
                     /\ CellOf(before, Width, b, y) = CellWire)
              => /\ CellOf(heads, Width, b, y) >= 1
                 /\ (Width >= 3 /\ Height >= 3
                       /\ \A i \in 1..Len(before) :
                            before[i] = CellHead => i = y * Width + a + 1)
                    => (CellOf(heads, Width, b, y) = 1
                          /\ CellOf(Front, Width, b, y) = CellHead)
        /\ \A x \in 0..(Width - 1) : \A a, b \in {0, Height - 1} :
              (a # b /\ CellOf(before, Width, x, a) = CellHead
                     /\ CellOf(before, Width, x, b) = CellWire)
              => /\ CellOf(heads, Width, x, b) >= 1
                 /\ (Width >= 3 /\ Height >= 3
                       /\ \A i \in 1..Len(before) :
                            before[i] = CellHead => i = a * Width + x + 1)
                    => (CellOf(heads, Width, x, b) = 1
                          /\ CellOf(Front, Width, x, b) = CellHead)

\* A 3-wide grid whose Wire in the last column became a Head because of a
\* Head in column 0 of its row.
C2_Witness ==
    /\ call.op = "Step" /\ call.n = 1
    /\ Width = 3
    /\ \E y \in 0..(Height - 1) :
         /\ CellOf(before, Width, 0, y) = CellHead
         /\ CellOf(before, Width, 2, y) = CellWire
         /\ CellOf(before, Width, 1, y) = CellEmpty
         /\ CellOf(Front, Width, 2, y) = CellHead

\* C3: Step(n) leaves the front grid that n calls of Step(1) leave.
C3_StepComposes ==
    /\ Front = BindSource(single.sim, single.gl).data
    /\ sim.input.size = single.sim.input.size

\* Step(2) was called and changed the grid.
C3_Witness ==
    /\ call.op = "Step" /\ call.n >= 2
    /\ Front # before
    /\ Front # NextGeneration(before, Width, Height)

\* C4: after k rule applications since the load, the texture Image reads
\* and the texture Bind binds both hold generation k of the loaded grid.
C4_FrontIsLatest ==
    /\ ImageSource(sim, gl).data = Generation(loaded, Width, Height, gen)
    /\ BindSource(sim, gl).data = Generation(loaded, Width, Height, gen)

\* Two applications, made by two Step(1) calls, each of which changed the
\* grid: the front grid was read after an odd and after an even number.
C4_Witness ==
    /\ gen = 2
    /\ call.op = "Step" /\ call.n = 1
    /\ before # loaded
    /\ Front # before
    /\ Front # loaded

\* C5: a Step(n) call with n < 1 changes neither the front grid nor the
\* back grid nor which state is the input.
C5_StepNoop ==
    [][(call'.op = "Step" /\ call'.n < 1) => (sim' = sim /\ gl' = gl)]_vars

\* Step(0) or Step(-1) was called after an odd number of applications.
C5_Witness ==
    /\ call.op = "Step" /\ call.n < 1
    /\ gen = 1
    /\ Front # loaded

\* C6: every cell of the front grid is one of 0, 50, 100, 255.
C6_CanonicalBytes ==
    \A i \in 1..Len(Front) : Front[i] \in Canonical

\* Two generations after the import the grid holds a Wire that was loaded
\* as a Head and a Tail that was loaded as a Wire.
C6_Witness ==
    /\ gen = 2
    /\ \E i \in 1..Len(Front) : loaded[i] = CellHead /\ Front[i] = CellWire
    /\ \E i \in 1..Len(Front) : loaded[i] = CellWire /\ Front[i] = CellTail

\* C10 as claimed: Data returns width*height bytes in which byte
\* y*width+x is cell (x, y) of the front grid.
C10_ReadbackLayout ==
    call.op = "Image" =>
        /\ Len(readback) = Width * Height
        /\ \A x \in 0..(Width - 1), y \in 0..(Height - 1) :
              CellOf(readback, Width, x, y) = CellOf(Front, Width, x, y)

\* C11: while a pass is being shaded the texture bound as kernel input is
\* not the render target and keeps the front grid; every cell already
\* shaded holds what the rule makes of the front grid and every other cell of
\* the back grid is untouched, so that whatever the order of the fragments
\* the finished back grid is the one a single DrawArrays produces.
C11_OrderIndependent ==
    pass # None =>
        LET target == gl.fbo[gl.boundFbo].color
        IN /\ gl.boundTex # target
           /\ gl.tex[gl.boundTex].data = pass.front
           /\ \A i \in 1..Len(pass.front) :
                 gl.tex[target].data[i] =
                    IF i \in pass.pending THEN pass.back[i] ELSE pass.drawn[i]
           /\ pass.drawn = NextGeneration(pass.front, Width, Height)

\* A finished pass, shaded last cell first, in which a wire became a head
\* next to a head that became a tail.
C11_Witness ==
    /\ pass # None
    /\ pass.pending = {}
    /\ call.op = "main" /\ call.n = 1
    /\ Len(pass.front) >= 4
    /\ \E i, j \in 1..Len(pass.front) :
          /\ pass.front[i] = CellWire
          /\ gl.tex[gl.fbo[gl.boundFbo].color].data[i] = CellHead
          /\ pass.front[j] = CellHead
          /\ gl.tex[gl.fbo[gl.boundFbo].color].data[j] = CellTail

-----------------------------------------------------------------------------
(* Properties of the backend resources.                                    *)

\* The names of table t that name an object.
Live(t) == { n \in Names : t[n] # None }

\* The objects a SimulationState's handles name.
Storage(ss, g) == <<IF ss.tex \in Names THEN g.tex[ss.tex] ELSE None,
                    IF ss.rbo \in Names THEN g.rbo[ss.rbo] ELSE None,
                    IF ss.fbo \in Names THEN g.fbo[ss.fbo] ELSE None>>

\* C12: a SetData call whose buffer length is not width*height returns a
\* SizeMismatch error and leaves the grid (its size and its cells) unchanged.
C12_SetDataSizeMismatch ==
    [][(/\ call'.op = "SetData"
        /\ call'.k = call.k + 1
        /\ Len(pix') # pixSize'[1] * pixSize'[2])
       => (/\ err'
           /\ gl'.tex = gl.tex
           /\ sim'[call'.which].size = sim[call'.which].size)]_vars

\* C13: when NewSimulation returns an error, no shader, program,
\* framebuffer, texture, renderbuffer, vertex array or buffer object that
\* it allocated remains allocated, and the caller gets the error and no
\* simulation.
C13_FailedConstructionFreesAll ==
    (call.op = "NewSimulation" /\ err) =>
        /\ sim = None
        /\ Live(gl.obj) = {} /\ Live(gl.fbo) = {} /\ Live(gl.tex) = {}
        /\ Live(gl.rbo) = {} /\ Live(gl.vao) = {} /\ Live(gl.buf) = {}

\* C14: after Simulation.Release the storage of both grids and the kernel
\* program of the simulation are no longer live objects.
C14_ReleaseFreesAll ==
    (call.op = "Release" /\ sim # None) =>
        /\ Storage(sim.input, gl) = <<None, None, None>>
        /\ Storage(sim.output, gl) = <<None, None, None>>
        /\ gl.obj[sim.shader] = None

\* C15: a Release of a state that was never initialized, or that was
\* already released, changes no object of the other state while that one
\* holds storage.
C15_ReleaseIdempotent ==
    [][(/\ call'.op = "Release"
        /\ call'.k = call.k + 1
        /\ held[call'.which] # "held")
       => \A o \in States \ {call'.which} :
             held[o] = "held" => Storage(sim[o], gl') = Storage(sim[o], gl)]_vars

\* C16: after a successful Init every cell of the state's surface is 0.
C16_FreshGridEmpty ==
    (call.op = "Init" /\ ~err /\ held[call.which] = "held") =>
        \A i \in 1..(sim[call.which].size[1] * sim[call.which].size[2]) :
            gl.tex[sim[call.which].tex].data[i] = CellEmpty

-----------------------------------------------------------------------------
(* Properties of the state files, of reload and of the resources they      *)
(* hold.                                                                   *)

\* The state files of the input: the files "<stamp>.<input file name>" of
\* the directory of the input file.
OwnStates(d) ==
    { f \in d.files : /\ Len(f.name) = Len(d.name) + 1
                      /\ IsNumeral(f.name[1])
                      /\ Tail(f.name) = d.name }

\* The one with the highest time stamp.
LatestState(d) ==
    CHOOSE f \in OwnStates(d) :
        \A e \in OwnStates(d) : ParseInt(e.name[1]) <= ParseInt(f.name[1])

\* C23: F2 loads the state file of the input with the highest time stamp,
\* and where the input has no state file it does what F5 does.
C23_LoadsLatestState ==
    [][(call'.op = "loadState" /\ call'.k = call.k + 1) =>
        IF OwnStates(disk) # {}
        THEN /\ ~err'
             /\ sim' # None
             /\ sim'.input.size = <<LatestState(disk).data.w,
                                    LatestState(disk).data.h>>
             /\ Front' = toInternalFormat(pal, Decode(LatestState(disk).data)).pix
        ELSE \E fill \in UninitBytes : \E r \in {reload(disk, pal, gl, fill)} :
                sim' = r.sim /\ gl' = r.gl /\ err' = r.err]_vars

\* C24: F2 after F1, with any steps but no further F1 in between, makes
\* the front grid the grid it was when F1 saved it.
C24_SaveThenLoad ==
    [][(call'.op = "loadState" /\ call'.k = call.k + 1 /\ saved # None) =>
        /\ sim' # None
        /\ sim'.input.size = saved.size
        /\ Front' = saved.grid]_vars

\* C25: when F5 or F2 fails, the application keeps the simulation it had,
\* with its grid as it was.
C25_FailedLoadKeepsSimulation ==
    [][(/\ call'.op \in {"loadState", "reload"}
        /\ call'.k = call.k + 1
        /\ err'
        /\ sim # None)
       => /\ sim' = sim
          /\ Front' = Front]_vars

\* The program objects among the shader and program objects.
Programs(g) == { n \in Live(g.obj) : g.obj[n].kind = "program" }

\* C26: the backend never holds more than the two grids and the one
\* program of one simulation, and nothing once Application.Release ran.
C26_OneSimulationHeld ==
    call.op \in {"LoadSimulation", "Step", "saveState", "loadState", "reload",
                 "unlink", "Release"} =>
        /\ Cardinality(Live(gl.tex)) <= 2
        /\ Cardinality(Live(gl.fbo)) <= 2
        /\ Cardinality(Live(gl.rbo)) <= 2
        /\ Cardinality(Programs(gl)) <= 1
        /\ call.op = "Release" =>
              /\ Live(gl.tex) = {} /\ Live(gl.fbo) = {} /\ Live(gl.rbo) = {}
              /\ Live(gl.obj) = {} /\ Live(gl.vao) = {} /\ Live(gl.buf) = {}

-----------------------------------------------------------------------------
(* Properties of the rule on small grids and over several generations.     *)

\* The cells other than (x, y) in the wrapped Moore neighbourhood of (x, y).
Neighbourhood(w, h, x, y) ==
    { <<(x + dx) % w, (y + dy) % h>> : dx \in (-1)..1, dy \in (-1)..1 }
        \ {<<x, y>>}

\* C28: the head count main() uses for a Wire cell is the number of
\* distinct other cells of its wrapped neighbourhood that are Head.
C28_DistinctHeads ==
    (call.op = "Step" /\ call.n = 1) =>
        \A x \in 0..(Width - 1), y \in 0..(Height - 1) :
            CellOf(before, Width, x, y) = CellWire =>
                CellOf(heads, Width, x, y) =
                    Cardinality({ c \in Neighbourhood(Width, Height, x, y) :
                                    CellOf(before, Width, c[1], c[2]) = CellHead })

\* C29: whatever Step calls were made, a cell of the front grid is Empty
\* exactly when it was Empty in the grid that was loaded.
C29_EmptyFixed ==
    call.op \in {"LoadSimulation", "Step"} =>
        /\ Len(Front) = Len(loaded)
        /\ \A i \in 1..Len(loaded) :
              Front[i] = CellEmpty <=> loaded[i] = CellEmpty

\* Two generations after the load, a grid with an Empty cell whose other
\* cells have changed.
C29_Witness ==
    /\ call.op = "Step"
    /\ gen = MaxGen
    /\ \E i, j \in 1..Len(loaded) :
         /\ loaded[i] = CellEmpty /\ Front[i] = CellEmpty
         /\ loaded[j] = CellHead /\ Front[j] = CellWire
    /\ \E i \in 1..Len(loaded) : loaded[i] = CellWire /\ Front[i] = CellTail

\* C30: a Head of one generation is a Tail in the next and a Wire in the
\* one after, and a Tail is a Wire in the next: no cell is Head twice in a
\* row and none goes from Tail to Head.
C30_ElectronAges ==
    [][/\ (call'.op = "Step" /\ call'.n = 1 /\ gen' = gen + 1) =>
            \A i \in 1..Len(Front) :
               /\ Front[i] = CellHead => Front'[i] = CellTail
               /\ Front[i] = CellTail => Front'[i] = CellWire
               /\ (call.op = "Step" /\ call.n = 1 /\ before[i] = CellHead)
                     => Front'[i] = CellWire
       /\ (call'.op = "Step" /\ call'.n = 2 /\ gen' = gen + 2) =>
            \A i \in 1..Len(Front) :
               Front[i] = CellHead => Front'[i] = CellWire]_vars

\* A Head with a Head and a Wire next to it has aged to Wire by two single
\* steps, and the Wire has become a Head and then a Tail.
C30_Witness ==
    /\ call.op = "Step" /\ call.n = 1 /\ gen = 2
    /\ \E i, j \in 1..Len(loaded) :
         /\ i # j
         /\ loaded[i] = CellHead /\ before[i] = CellTail /\ Front[i] = CellWire
         /\ loaded[j] = CellWire /\ before[j] = CellHead /\ Front[j] = CellTail

-----------------------------------------------------------------------------
(* Properties of the clock.  The nominal rate of a clock state is          *)
(* stepMultiplier / stepInterval; rates are compared by exact products on  *)
(* 16 unsigned bytes.                                                      *)

Wide == 2 * Limbs

\* |a| of an int64.
Magnitude(a) ==
    [i \in 1..Wide |->
        IF i > Limbs THEN 0 ELSE IF IsNeg(a) THEN Neg64(a)[i] ELSE a[i]]

\* acc + a * d * 256^shift, byte by byte from byte j on.
RECURSIVE AddScaled(_, _, _, _, _, _)
AddScaled(a, d, shift, carry, j, acc) ==
    IF j + shift > Wide THEN acc
    ELSE CHOOSE r \in
            { AddScaled(a, d, shift, p[1], j + 1, p[2]) :
                p \in { <<t \div 256, [acc EXCEPT ![j + shift] = t % 256]>> :
                          t \in {acc[j + shift] + a[j] * d + carry} } } : TRUE

\* acc + a * b, for a of 16 and b of 8 bytes.
RECURSIVE Times(_, _, _, _)
Times(a, b, i, acc) ==
    IF i > Limbs THEN acc
    ELSE CHOOSE r \in { Times(a, b, i + 1, q) :
                          q \in {AddScaled(a, b[i], i - 1, 0, 1, acc)} } : TRUE

\* a * n for a number a of 16 bytes and 0 <= n < 2^31.
Product(a, n) == Times(a, I64(n), 1, [i \in 1..Wide |-> 0])

\* The rate of the clock state fast is ten times that of slow.
TenfoldRate(slow, fast) ==
    /\ IsNeg(slow.stepMultiplier) = IsNeg(fast.stepMultiplier)
    /\ Product(Magnitude(fast.stepMultiplier), slow.stepInterval) =
       Product(Product(Magnitude(slow.stepMultiplier), fast.stepInterval), 10)

\* b is ten times a, as integers: the product did not wrap.
ExactTimes10(a, b) == b = Mul10(a) /\ Div10(b) = a

\* C17: an Update fires only when the application runs and the interval
\* has passed since the last fire; when it fires the front grid advances by
\* exactly stepMultiplier generations and the fire time is recorded;
\* otherwise the simulation is left as it is.
C17_TickFires ==
    [][(call'.op = "Update" /\ now' # now) =>
        LET fires == app.running /\ Sub(now', app.stepTime) >= app.stepInterval
            m == app.stepMultiplier
        IN /\ fires =>
                /\ ~IsNeg(m) /\ IsSmall(m)
                /\ Front' = Generation(Front, Width, Height, SmallValue(m))
                /\ app'.stepTime = now'
           /\ ~fires =>
                /\ sim' = sim /\ gl' = gl
                /\ app'.stepTime = app.stepTime]_vars

\* C18: k W presses from (10ms, 1) followed by k S presses lead back
\* through the same clock states in reverse order; the first W press sets
\* the interval to 1ms and every later one multiplies the multiplier by 10.
C18_FasterThenSlower ==
    LET k == Len(keys.trail) - 1
    IN /\ (keys.run = "up" /\ k >= 1) =>
             /\ app.stepInterval = Millisecond
             /\ k = 1 => app.stepMultiplier = I64(1)
             /\ k >= 2 => ExactTimes10(keys.trail[k][2], app.stepMultiplier)
       /\ keys.run = "down" => ClockOf(app) = keys.trail[k + 1]

\* C19: one S press divides the rate stepMultiplier / stepInterval by 10.
C19_SlowerTenth ==
    [][(call'.op = "KeyS" /\ keys'.n = keys.n + 1) => TenfoldRate(app', app)]_vars

\* C20: one W press multiplies the rate by 10: by multiplying the
\* multiplier by 10 when the interval is at most 1ms, and otherwise by
\* dividing the interval by 10, to no less than 1ms.
C20_FasterTenfold ==
    [][(call'.op = "KeyW" /\ keys'.n = keys.n + 1) =>
        /\ TenfoldRate(app, app')
        /\ app.stepInterval <= Millisecond =>
              /\ app'.stepInterval = app.stepInterval
              /\ ExactTimes10(app.stepMultiplier, app'.stepMultiplier)
        /\ app.stepInterval > Millisecond =>
              /\ app'.stepMultiplier = app.stepMultiplier
              /\ app'.stepInterval * 10 = app.stepInterval
              /\ app'.stepInterval >= Millisecond]_vars

\* C21: in every clock state the W and S keys lead to, stepMultiplier is
\* at least 1 and stepInterval is at least one nanosecond.
C21_ClockAtLeastOne ==
    call.op \in {"Initialize", "KeyW", "KeyS"} =>
        /\ ~LessThanOne(app.stepMultiplier)
        /\ app.stepInterval >= Nanosecond

\* C22: in every clock state the W and S keys lead to, a stepMultiplier
\* above 1 comes with a stepInterval of at most 1ms, and a stepInterval
\* above 1ms comes with a stepMultiplier of 1.
C22_ScalingExclusive ==
    call.op \in {"Initialize", "KeyW", "KeyS"} =>
        /\ GreaterThanOne(app.stepMultiplier) => app.stepInterval <= Millisecond
        /\ app.stepInterval > Millisecond => app.stepMultiplier = I64(1)

-----------------------------------------------------------------------------
(* Properties of the palette.                                              *)

\* The colour the palette configures for a cell byte.
StateColour(p, v) ==
    CASE v = CellWire -> p.Wire
      [] v = CellHead -> p.Head
      [] v = CellTail -> p.Tail
      [] OTHER -> p.Empty

SameRGB(c, d) ==
    \A k \in 1..3 : ColorRGBA16(c)[k] = ColorRGBA16(d)[k]

SameRGBA(c, d) == ColorRGBA16(c) = ColorRGBA16(d)

DiffersOnlyInAlpha(c, d) ==
    c.R = d.R /\ c.G = d.G /\ c.B = d.B /\ c.A # d.A

\* Pixel (Min.X + x, Min.Y + y) of the image.
PixelAt(x, y) == img.pix[y * img.w + x + 1]

C8_ImageToGrid ==
    call.op = "toInternalFormat" =>
        /\ pixSize = <<img.w, img.h>>
        /\ Len(pix) = img.w * img.h
        /\ \A x \in 0..(img.w - 1), y \in 0..(img.h - 1) :
              /\ CellOf(pix, img.w, x, y) = toCellState(pal, PixelAt(x, y))
              /\ (\A d \in {pal.Wire, pal.Head, pal.Tail} : ~SameRGB(PixelAt(x, y), d))
                    => CellOf(pix, img.w, x, y) = CellEmpty

\* An image that is not square, does not start at (0, 0) and holds an
\* annotation pixel next to a Head pixel was decoded.
C8_Witness ==
    /\ call.op = "toInternalFormat"
    /\ img.min # <<0, 0>>
    /\ img.w # img.h
    /\ \E i, j \in 1..Len(pix) :
         /\ img.pix[i] = Annotation /\ pix[i] = CellEmpty
         /\ img.pix[j] = pal.Head /\ pix[j] = CellHead

\* C27: for every palette, a cell state painted in its palette colour and
\* read back is the same cell state.
C27_StateRoundTrip ==
    call.op = "toInternalFormat" =>
        \A i \in 1..Len(pix) : readback[i] = pix[i]

\* C9: an image all of whose pixels are palette colours, decoded and then
\* encoded, comes back with the same dimensions and the same pixels.
C9_RoundTrip ==
    (call.op = "fromInternalFormat"
       /\ \A i \in 1..Len(img.pix) :
            \E d \in PaletteColours(pal) : SameRGBA(img.pix[i], d))
    => /\ exported.w = img.w /\ exported.h = img.h
       /\ Len(exported.pix) = Len(img.pix)
       /\ \A i \in 1..Len(img.pix) : SameRGBA(exported.pix[i], img.pix[i])

\* A 2x2 image of palette colours with a Tail and a Wire pixel made the
\* round trip.
C9_Witness ==
    /\ call.op = "fromInternalFormat"
    /\ img.w = 2 /\ img.h = 2
    /\ \A i \in 1..Len(img.pix) : img.pix[i] \in PaletteColours(pal)
    /\ \E i, j \in 1..Len(img.pix) :
         /\ img.pix[i] = pal.Tail /\ pix[i] = CellTail
         /\ img.pix[j] = pal.Wire /\ pix[j] = CellWire

====
